---- MODULE Spec2Model ----
(***************************************************************************)
(* Stock reconciliation between the B2B supplier feed and the WooCommerce  *)
(* export: core/feed_processor.py (parse_b2b_feed), core/woo_processor.py  *)
(* (load_woo_export) and core/sync_processor.py (detect_changes), run in   *)
(* the order main.py runs them, with the files main.py writes, and the     *)
(* earlier single-file script sync_stock.py run on the same inputs.        *)
(*                                                                         *)
(* Texts (str) are sequences of one-character strings, so that strip(),    *)
(* endswith(), int() and float() are computed and not assumed.  A Python   *)
(* dict is a sequence of [key, val] pairs in insertion order; a key is the *)
(* pair <<prefix, text>> standing for the f-string prefix + "_" + text.    *)
(***************************************************************************)
EXTENDS Integers, Sequences, FiniteSets, TLC

VARIABLES
    feed,            \* the <product> elements of the downloaded feed
    rows,            \* the rows of the export file
    pc,              \* where main is
    b2b_products,    \* main: b2b_products
    woo_products,    \* main: woo_products, without its '_all_skus' entry
    all_skus,        \* woo_products['_all_skus']
    changes,         \* detect_changes: changes
    change_log,      \* detect_changes: change_log
    processed_skus,  \* detect_changes: the skus whose processed_skus entry is True
    origin,          \* history: the loop and key that appended each record of changes
    log_origin,      \* history: the key that appended each entry of change_log
    no_download,     \* args.no_download
    fetches,         \* the requests.get calls made so far
    import_file,     \* import_<timestamp>.csv in DATA_DIR
    log_file,        \* change_log_<timestamp>.txt in DATA_DIR
    legacy_pc,       \* where sync_stock.py's main is
    legacy_changes,  \* sync_stock.py main: changes
    legacy_origin    \* history: the key that appended each record of legacy_changes

\* What detect_changes returns and records.
sync_vars == <<changes, change_log, processed_skus, origin, log_origin>>

\* The command line, the network and the data directory of a run of main.py.
run_vars == <<no_download, fetches, import_file, log_file>>

\* The run of sync_stock.py.
legacy_vars == <<legacy_pc, legacy_changes, legacy_origin>>

vars == <<feed, rows, pc, b2b_products, woo_products, all_skus,
          sync_vars, run_vars, legacy_vars>>

-----------------------------------------------------------------------------
(* Bounds of the explored inputs.                                          *)
MaxProducts == 2
MaxItems == 2
MaxRows == 2
MaxSyncProducts == 1
MaxSyncRows == 3
MaxMainRows == 2
MaxBothRows == 2

-----------------------------------------------------------------------------
(* Texts.                                                                  *)

\* A field that is not there: dict.get() finds no key / find() gives None.
Absent == <<"<absent>">>

Whitespace == {" "}
Digits == {"0", "1", "2", "3", "4", "5", "6", "7", "8", "9"}
DigitVal == ("0" :> 0) @@ ("1" :> 1) @@ ("2" :> 2) @@ ("3" :> 3) @@ ("4" :> 4)
            @@ ("5" :> 5) @@ ("6" :> 6) @@ ("7" :> 7) @@ ("8" :> 8) @@ ("9" :> 9)

RECURSIVE LStrip(_)
LStrip(t) == IF t # <<>> /\ Head(t) \in Whitespace THEN LStrip(Tail(t)) ELSE t

RECURSIVE RStrip(_)
RStrip(t) ==
    IF t # <<>> /\ t[Len(t)] \in Whitespace
    THEN RStrip(SubSeq(t, 1, Len(t) - 1)) ELSE t

\* str.strip()
Strip(t) == RStrip(LStrip(t))

\* str.endswith(suffix)
EndsWith(t, suffix) ==
    /\ Len(t) >= Len(suffix)
    /\ SubSeq(t, Len(t) - Len(suffix) + 1, Len(t)) = suffix

\* bool(x) of an optional text: None and '' are falsy.
Truthy(t) == t # Absent /\ t # <<>>

AllDigits(t) == \A i \in 1..Len(t) : t[i] \in Digits

RECURSIVE DecimalValue(_)
DecimalValue(t) ==
    IF t = <<>> THEN 0
    ELSE 10 * DecimalValue(SubSeq(t, 1, Len(t) - 1)) + DigitVal[t[Len(t)]]

Unsigned(t) == IF t # <<>> /\ Head(t) \in {"-", "+"} THEN Tail(t) ELSE t
Sign(t) == IF t # <<>> /\ Head(t) = "-" THEN -1 ELSE 1

ValueError == [ok |-> FALSE, val |-> 0]
Value(n) == [ok |-> TRUE, val |-> n]

\* int(str): optional whitespace, optional sign, one or more digits.
ParseInt(t) ==
    LET s == Strip(t)
        u == Unsigned(s)
    IN IF u # <<>> /\ AllDigits(u) THEN Value(Sign(s) * DecimalValue(u))
       ELSE ValueError

DotAt(u) == IF \E i \in 1..Len(u) : u[i] = "."
            THEN CHOOSE i \in 1..Len(u) : u[i] = "." /\ \A j \in 1..(i - 1) : u[j] # "."
            ELSE 0

\* int(float(str)): a decimal literal, truncated toward zero.
ParseFloatTrunc(t) ==
    LET s == Strip(t)
        u == Unsigned(s)
        d == DotAt(u)
        whole == IF d = 0 THEN u ELSE SubSeq(u, 1, d - 1)
        frac == IF d = 0 THEN <<>> ELSE SubSeq(u, d + 1, Len(u))
    IN IF /\ AllDigits(whole) /\ AllDigits(frac)
          /\ (whole # <<>> \/ frac # <<>>)
       THEN Value(Sign(s) * DecimalValue(whole))
       ELSE ValueError

-----------------------------------------------------------------------------
(* Constants of constants.py.                                              *)
STATUS_IN_STOCK == "instock"
STATUS_OUT_OF_STOCK == "outofstock"
DEFAULT_MANAGE_STOCK == "yes"

-----------------------------------------------------------------------------
(* Python dict, insertion ordered.                                         *)

HasKey(d, k) == \E i \in 1..Len(d) : d[i].key = k
Lookup(d, k) == d[CHOOSE i \in 1..Len(d) : d[i].key = k].val
Keys(d) == {d[i].key : i \in 1..Len(d)}

\* d[k] = v: an existing key keeps its position, a new key goes last.
DictSet(d, k, v) ==
    IF HasKey(d, k)
    THEN [i \in 1..Len(d) |-> IF d[i].key = k THEN [key |-> k, val |-> v] ELSE d[i]]
    ELSE Append(d, [key |-> k, val |-> v])

\* f"sku_{...}" and f"ean_{...}"
SkuKey(t) == <<"sku", t>>
EanKey(t) == <<"ean", t>>

-----------------------------------------------------------------------------
(* core/feed_processor.py                                                  *)

\* item.get('quantity', 0) then int(...): int(0) of the default is 0.
ItemQuantity(item) ==
    IF item.quantity = Absent THEN Value(0) ELSE ParseInt(item.quantity)

\* item.get('ean', '').strip()
ItemEan(item) == IF item.ean = Absent THEN <<>> ELSE Strip(item.ean)

\* StockStatus, counting an empty stock as in stock.
StockStatusFromZero(qty) == IF qty >= 0 THEN STATUS_IN_STOCK ELSE STATUS_OUT_OF_STOCK

\* 'stock_status': STATUS_IN_STOCK if qty > 0 else STATUS_OUT_OF_STOCK
StockStatus(qty) == IF qty > 0 THEN STATUS_IN_STOCK ELSE STATUS_OUT_OF_STOCK

\* The loop over stock_elem.findall('item'); st = [raised, total, products].
RECURSIVE ParseItems(_, _)
ParseItems(items, st) ==
    IF items = <<>> \/ st.raised THEN st
    ELSE LET item == Head(items)
             q == ItemQuantity(item)
             ean == ItemEan(item)
         IN IF ~q.ok THEN [st EXCEPT !.raised = TRUE]
            ELSE ParseItems(Tail(items),
                   [raised |-> FALSE,
                    total |-> st.total + q.val,
                    products |->
                      IF ean # <<>>
                      THEN DictSet(st.products, EanKey(ean),
                                   [type |-> "variation", ean |-> ean,
                                    stock |-> q.val,
                                    stock_status |-> StockStatus(q.val)])
                      ELSE st.products])

\* One iteration of the loop over root.findall('.//product').  product.stock
\* is the items of the stock element, none when there is no such element.
ParseProduct(product, products) ==
    IF Truthy(product.mpn)
    THEN LET sku == Strip(product.mpn)
             st == ParseItems(product.stock,
                              [raised |-> FALSE, total |-> 0, products |-> products])
         IN IF st.raised THEN [raised |-> TRUE, products |-> products]
            ELSE [raised |-> FALSE,
                  products |-> DictSet(st.products, SkuKey(sku),
                                       [type |-> "parent", sku |-> sku,
                                        stock |-> st.total,
                                        stock_status |-> StockStatus(st.total)])]
    ELSE [raised |-> FALSE, products |-> products]

RECURSIVE ParseProducts(_, _)
ParseProducts(ps, res) ==
    IF ps = <<>> \/ res.raised THEN res
    ELSE ParseProducts(Tail(ps), ParseProduct(Head(ps), res.products))

\* parse_b2b_feed: the mapping, or raised (the except clause re-raises).
parse_b2b_feed(f) == ParseProducts(f, [raised |-> FALSE, products |-> <<>>])

-----------------------------------------------------------------------------
(* core/woo_processor.py                                                   *)

\* row.get(f) and row[f].strip()
NonBlank(t) == Truthy(t) /\ Strip(t) # <<>>

\* sku present and (not post_parent or post_parent == '' or post_parent == '0')
IsParentRow(row) ==
    /\ NonBlank(row.sku)
    /\ (~Truthy(row.post_parent) \/ row.post_parent = <<>> \/ row.post_parent = <<"0">>)

\* elif ean present and post_parent present and post_parent.strip()
IsVariationRow(row) ==
    /\ ~IsParentRow(row)
    /\ NonBlank(row.ean)
    /\ NonBlank(row.post_parent)

\* ean.strip(), with one trailing '.0' removed
NormalizeEan(t) ==
    LET ean == Strip(t)
    IN IF EndsWith(ean, <<".", "0">>) THEN SubSeq(ean, 1, Len(ean) - 2) ELSE ean

\* int(float(row.get('stock', 0) or 0))
CurrentStock(row) ==
    IF ~Truthy(row.stock) THEN Value(0) ELSE ParseFloatTrunc(row.stock)

\* row.get('stock_status', 'outofstock')
CurrentStatus(row) ==
    IF row.stock_status = "<absent>" THEN "outofstock" ELSE row.stock_status

\* LoadRow, tracking the sku of the rows it keys only.
LoadRowTracksKeyedRows(row, st) ==
    LET q == CurrentStock(row)
    IN IF ~(IsParentRow(row) \/ IsVariationRow(row)) THEN st
       ELSE IF ~q.ok THEN [st EXCEPT !.raised = TRUE]
       ELSE [raised |-> FALSE,
             all_skus |-> IF NonBlank(row.sku) THEN st.all_skus \cup {Strip(row.sku)}
                          ELSE st.all_skus,
             woo_products |->
               IF IsParentRow(row)
               THEN DictSet(st.woo_products, SkuKey(Strip(row.sku)),
                            [sku |-> Strip(row.sku),
                             current_stock |-> q.val,
                             current_status |-> CurrentStatus(row),
                             type |-> "parent"])
               ELSE DictSet(st.woo_products, EanKey(NormalizeEan(row.ean)),
                            [sku |-> IF row.sku = Absent THEN <<>> ELSE Strip(row.sku),
                             ean |-> NormalizeEan(row.ean),
                             current_stock |-> q.val,
                             current_status |-> CurrentStatus(row),
                             type |-> "variation",
                             parent_id |-> row.post_parent])]

\* One iteration of the loop over rows; st = [raised, woo_products, all_skus].
LoadRow(row, st) ==
    LET skus == IF NonBlank(row.sku) THEN st.all_skus \cup {Strip(row.sku)}
                ELSE st.all_skus
        q == CurrentStock(row)
    IN IF IsParentRow(row)
       THEN IF ~q.ok THEN [st EXCEPT !.raised = TRUE]
            ELSE [raised |-> FALSE, all_skus |-> skus,
                  woo_products |->
                    DictSet(st.woo_products, SkuKey(Strip(row.sku)),
                            [sku |-> Strip(row.sku),
                             current_stock |-> q.val,
                             current_status |-> CurrentStatus(row),
                             type |-> "parent"])]
       ELSE IF IsVariationRow(row)
       THEN IF ~q.ok THEN [st EXCEPT !.raised = TRUE]
            ELSE [raised |-> FALSE, all_skus |-> skus,
                  woo_products |->
                    DictSet(st.woo_products, EanKey(NormalizeEan(row.ean)),
                            [sku |-> IF row.sku = Absent THEN <<>> ELSE Strip(row.sku),
                             ean |-> NormalizeEan(row.ean),
                             current_stock |-> q.val,
                             current_status |-> CurrentStatus(row),
                             type |-> "variation",
                             parent_id |-> row.post_parent])]
       ELSE [st EXCEPT !.all_skus = skus]

RECURSIVE LoadRows(_, _)
LoadRows(rs, st) ==
    IF rs = <<>> \/ st.raised THEN st
    ELSE LoadRows(Tail(rs), LoadRow(Head(rs), st))

\* load_woo_export up to the conversion of the set all_skus to a list.
load_woo_export(rs) ==
    LoadRows(rs, [raised |-> FALSE, woo_products |-> <<>>, all_skus |-> {}])

\* list(all_skus): the elements of the set once each, in an order the
\* hash seed decides.
ListsOf(S) ==
    {l \in [1..Cardinality(S) -> S] : {l[i] : i \in 1..Cardinality(S)} = S}

-----------------------------------------------------------------------------
(* core/sync_processor.py                                                  *)

\* woo_data.get('ean', '')
GetEan(woo_data) == IF "ean" \in DOMAIN woo_data THEN woo_data.ean ELSE <<>>

\* The record of the change pass and its log entry.
ChangeOf(woo_data, b2b_data) ==
    [sku |-> woo_data.sku,
     ean |-> GetEan(woo_data),
     manage_stock |-> DEFAULT_MANAGE_STOCK,
     stock_status |-> b2b_data.stock_status,
     stock |-> b2b_data.stock]

\* LogEntryOf, with the old and the new values exchanged.
LogEntryOfSwapped(woo_data, b2b_data) ==
    [key |-> IF woo_data.sku # <<>> THEN woo_data.sku ELSE GetEan(woo_data),
     old_stock |-> b2b_data.stock,
     new_stock |-> woo_data.current_stock,
     old_status |-> b2b_data.stock_status,
     new_status |-> woo_data.current_status]

\* log_entry: 'key': sku or woo_data.get('ean')
LogEntryOf(woo_data, b2b_data) ==
    [key |-> IF woo_data.sku # <<>> THEN woo_data.sku ELSE GetEan(woo_data),
     old_stock |-> woo_data.current_stock,
     new_stock |-> b2b_data.stock,
     old_status |-> woo_data.current_status,
     new_status |-> b2b_data.stock_status]

\* The record of the retention pass.
RetentionOf(sku, woo_data) ==
    [sku |-> sku,
     ean |-> GetEan(woo_data),
     manage_stock |-> DEFAULT_MANAGE_STOCK,
     stock_status |-> woo_data.current_status,
     stock |-> woo_data.current_stock]

\* Differs, comparing the quantity alone.
DiffersInStockOnly(woo_data, b2b_data) ==
    woo_data.current_stock # b2b_data.stock

\* Compare stock quantity and status.
Differs(woo_data, b2b_data) ==
    \/ woo_data.current_stock # b2b_data.stock
    \/ woo_data.current_status # b2b_data.stock_status

\* ChangeStep, marking the sku processed only when a change is emitted.
ChangeStepMarksOnChange(b2b, entry, st) ==
    IF HasKey(b2b, entry.key) /\ Differs(entry.val, Lookup(b2b, entry.key))
    THEN [changes |-> Append(st.changes, ChangeOf(entry.val, Lookup(b2b, entry.key))),
          change_log |-> Append(st.change_log,
                                LogEntryOf(entry.val, Lookup(b2b, entry.key))),
          processed |-> IF entry.val.sku # <<>>
                        THEN st.processed \cup {entry.val.sku} ELSE st.processed,
          origin |-> Append(st.origin, [pass |-> "change", key |-> entry.key]),
          log_origin |-> Append(st.log_origin, entry.key)]
    ELSE st

\* One iteration of "for key, woo_data in woo_products.items()";
\* st = [changes, change_log, processed, origin, log_origin].  processed is
\* the set of skus whose processed_skus entry is True.
ChangeStep(b2b, entry, st) ==
    IF HasKey(b2b, entry.key)
    THEN LET woo_data == entry.val
             b2b_data == Lookup(b2b, entry.key)
             processed == IF woo_data.sku # <<>>
                          THEN st.processed \cup {woo_data.sku}
                          ELSE st.processed
         IN IF Differs(woo_data, b2b_data)
            THEN [changes |-> Append(st.changes, ChangeOf(woo_data, b2b_data)),
                  change_log |-> Append(st.change_log, LogEntryOf(woo_data, b2b_data)),
                  processed |-> processed,
                  origin |-> Append(st.origin, [pass |-> "change", key |-> entry.key]),
                  log_origin |-> Append(st.log_origin, entry.key)]
            ELSE [st EXCEPT !.processed = processed]
    ELSE st

RECURSIVE ChangePass(_, _, _)
ChangePass(b2b, woo, st) ==
    IF woo = <<>> THEN st
    ELSE ChangePass(b2b, Tail(woo), ChangeStep(b2b, Head(woo), st))

\* RetentionStep, without the test of the processed marker.
RetentionStepIgnoresProcessed(woo, sku, st) ==
    IF \E i \in 1..Len(woo) : woo[i].val.sku = sku
    THEN LET i == CHOOSE i \in 1..Len(woo) :
                    /\ woo[i].val.sku = sku
                    /\ \A j \in 1..(i - 1) : woo[j].val.sku # sku
         IN [st EXCEPT !.changes = Append(@, RetentionOf(sku, woo[i].val)),
                       !.origin = Append(@, [pass |-> "retention", key |-> woo[i].key])]
    ELSE st

\* One iteration of "for sku, processed in processed_skus.items()": the
\* first woo_products entry carrying the sku, if there is one.
RetentionStep(woo, sku, st) ==
    IF sku \notin st.processed /\ \E i \in 1..Len(woo) : woo[i].val.sku = sku
    THEN LET i == CHOOSE i \in 1..Len(woo) :
                    /\ woo[i].val.sku = sku
                    /\ \A j \in 1..(i - 1) : woo[j].val.sku # sku
         IN [st EXCEPT !.changes = Append(@, RetentionOf(sku, woo[i].val)),
                       !.origin = Append(@, [pass |-> "retention", key |-> woo[i].key])]
    ELSE st

RECURSIVE RetentionPass(_, _, _)
RetentionPass(woo, skus, st) ==
    IF skus = <<>> THEN st
    ELSE RetentionPass(woo, Tail(skus), RetentionStep(woo, Head(skus), st))

\* detect_changes, running the retention loop before the change loop.
detect_changes_retention_first(b2b, woo, skus) ==
    ChangePass(b2b, woo,
        RetentionPass(woo, skus,
            [changes |-> <<>>, change_log |-> <<>>, processed |-> {},
             origin |-> <<>>, log_origin |-> <<>>]))

\* detect_changes(b2b_products, woo_products); woo is woo_products without
\* its '_all_skus' entry and skus is that entry.
detect_changes(b2b, woo, skus) ==
    RetentionPass(woo, skus,
        ChangePass(b2b, woo,
            [changes |-> <<>>, change_log |-> <<>>, processed |-> {},
             origin |-> <<>>, log_origin |-> <<>>]))

-----------------------------------------------------------------------------
(* sync_stock.py, the single-file script.                                  *)

\* parse_b2b_feed of sync_stock.py: statement for statement that of
\* core/feed_processor.py, with sys.exit(1) where the latter re-raises.
legacy_parse_b2b_feed(f) == parse_b2b_feed(f)

\* One iteration of "for row in reader"; st = [raised, woo_products].  The
\* row's ID column, which the modular reader does not read, holds id.  A
\* variation entry has no 'sku'.
LegacyLoadRow(row, id, st) ==
    LET q == CurrentStock(row)
    IN IF IsParentRow(row)
       THEN IF ~q.ok THEN [st EXCEPT !.raised = TRUE]
            ELSE [raised |-> FALSE,
                  woo_products |->
                    DictSet(st.woo_products, SkuKey(Strip(row.sku)),
                            [id |-> id,
                             sku |-> Strip(row.sku),
                             current_stock |-> q.val,
                             current_status |-> CurrentStatus(row),
                             type |-> "parent"])]
       ELSE IF IsVariationRow(row)
       THEN IF ~q.ok THEN [st EXCEPT !.raised = TRUE]
            ELSE [raised |-> FALSE,
                  woo_products |->
                    DictSet(st.woo_products, EanKey(NormalizeEan(row.ean)),
                            [id |-> id,
                             ean |-> NormalizeEan(row.ean),
                             current_stock |-> q.val,
                             current_status |-> CurrentStatus(row),
                             type |-> "variation",
                             parent_id |-> row.post_parent])]
       ELSE st

RECURSIVE LegacyLoadRows(_, _, _)
LegacyLoadRows(rs, id, st) ==
    IF rs = <<>> \/ st.raised THEN st
    ELSE LegacyLoadRows(Tail(rs), id + 1, LegacyLoadRow(Head(rs), id, st))

\* load_woo_export of sync_stock.py; the ID of a row is its number.
legacy_load_woo_export(rs) ==
    LegacyLoadRows(rs, 1, [raised |-> FALSE, woo_products |-> <<>>])

\* woo_data.get('sku', '')
GetSku(woo_data) == IF "sku" \in DOMAIN woo_data THEN woo_data.sku ELSE <<>>

\* change = {'ID': ..., 'sku': ..., ..., 'backorders': 'no'}
LegacyChangeOf(woo_data, b2b_data) ==
    [ID |-> woo_data.id,
     sku |-> GetSku(woo_data),
     ean |-> GetEan(woo_data),
     manage_stock |-> "yes",
     stock_status |-> b2b_data.stock_status,
     stock |-> b2b_data.stock,
     backorders |-> "no"]

\* LegacyDiffers, comparing the quantity alone.
LegacyDiffersInStockOnly(woo_data, b2b_data) ==
    woo_data.current_stock # b2b_data.stock

\* woo_data['current_stock'] != b2b_data['stock'] or
\* woo_data['current_status'] != b2b_data['stock_status']
LegacyDiffers(woo_data, b2b_data) ==
    \/ woo_data.current_stock # b2b_data.stock
    \/ woo_data.current_status # b2b_data.stock_status

\* One iteration of "for key, woo_data in woo_products.items()" of
\* sync_stock.py; st = [changes, origin].
LegacyChangeStep(b2b, entry, st) ==
    IF HasKey(b2b, entry.key) /\ LegacyDiffers(entry.val, Lookup(b2b, entry.key))
    THEN [changes |-> Append(st.changes,
                             LegacyChangeOf(entry.val, Lookup(b2b, entry.key))),
          origin |-> Append(st.origin, entry.key)]
    ELSE st

RECURSIVE LegacyChangePass(_, _, _)
LegacyChangePass(b2b, woo, st) ==
    IF woo = <<>> THEN st
    ELSE LegacyChangePass(b2b, Tail(woo), LegacyChangeStep(b2b, Head(woo), st))

\* detect_changes of sync_stock.py: the list it returns.
legacy_detect_changes(b2b, woo) ==
    LegacyChangePass(b2b, woo, [changes |-> <<>>, origin |-> <<>>])

-----------------------------------------------------------------------------
(* Inputs.                                                                 *)

SeqsUpTo(S, n) == UNION {[1..k -> S] : k \in 0..n}

Item(q, e) == [quantity |-> q, ean |-> e]

\* <item quantity=... ean=...> elements of a feed.
FeedItems ==
    { Item(<<"3">>, <<"7">>),
      Item(<<"0">>, <<"7">>),
      Item(<<"5">>, <<"8">>),
      Item(<<"5">>, Absent),
      Item(Absent, <<" ">>),
      Item(<<"x">>, <<"7">>),
      Item(<<"-", "2">>, <<"8">>),
      Item(<<"3">>, <<"7", ".", "0">>) }

\* <mpn> of a product: none, two identifiers, whitespace only.
FeedMpns == {Absent, <<"A">>, <<" ", "B">>, <<" ">>}

\* The items its dealt to n products: owner[i] is the product of item i.
Deal(mpns, its, owner) ==
    [p \in 1..Len(mpns) |->
        LET mine == {i \in 1..Len(its) : owner[i] = p}
        IN [mpn |-> mpns[p],
            stock |-> [k \in 1..Cardinality(mine) |->
                          its[CHOOSE i \in mine :
                                Cardinality({j \in mine : j <= i}) = k]]]]

NonDecreasing(owner) ==
    \A i, j \in DOMAIN owner : i <= j => owner[i] <= owner[j]

Row(sku, ean, post_parent, stock, stock_status) ==
    [sku |-> sku, ean |-> ean, post_parent |-> post_parent, stock |-> stock,
     stock_status |-> stock_status]

\* Export rows: every combination of the fields that classify a row, and
\* every combination of the fields that carry its stock.
ExportRows ==
    { Row(s, e, p, <<"3">>, "instock") :
        s \in {<<>>, <<"A">>, <<" ", "B", " ">>},
        e \in {<<>>, <<"7">>},
        p \in {Absent, <<>>, <<"0">>, <<" ">>, <<"5">>} }
    \cup
    { Row(<<"A">>, <<>>, <<>>, q, st) :
        q \in {Absent, <<>>, <<"3", ".", "7">>, <<"x">>, <<"-", "2">>},
        st \in {"<absent>", "outofstock"} }

\* Products and rows of the reconciliation runs.
SyncProducts ==
    { [mpn |-> <<"A">>, stock |-> <<Item(<<"3">>, <<"7">>)>>],
      [mpn |-> <<"A">>, stock |-> <<Item(<<"0">>, <<"7">>)>>],
      [mpn |-> <<"A">>, stock |-> <<Item(<<"3">>, <<"7">>), Item(<<"0">>, <<"8">>)>>],
      [mpn |-> <<"B">>, stock |-> <<>>],
      [mpn |-> <<"B">>, stock |-> <<Item(<<"3">>, <<"7", ".", "0">>)>>] }

SyncRows ==
    { Row(<<"A">>, <<>>, <<>>, <<"3">>, "instock"),
      Row(<<"A">>, <<>>, <<>>, <<"3">>, "outofstock"),
      Row(<<"A">>, <<>>, <<>>, <<"0">>, "outofstock"),
      Row(<<"A">>, <<"7">>, <<"5">>, <<"3", ".", "0">>, "instock"),
      Row(<<>>, <<"7", ".", "0">>, <<"5">>, <<"0">>, "outofstock"),
      Row(<<"C">>, <<"7">>, <<"5">>, <<"0">>, "outofstock"),
      Row(<<"C">>, <<>>, <<"5">>, <<"3">>, "instock"),
      Row(<<"B">>, <<"8">>, <<"0">>, <<"3">>, "instock"),
      Row(<<"B">>, <<"8">>, <<"6">>, <<"x">>, "instock"),
      Row(<<"7">>, <<>>, <<>>, <<"3">>, "instock") }

-----------------------------------------------------------------------------
(* The run of main.py.                                                     *)

Idle ==
    /\ b2b_products = <<>>
    /\ woo_products = <<>>
    /\ all_skus = <<>>
    /\ changes = <<>>
    /\ change_log = <<>>
    /\ processed_skus = {}
    /\ origin = <<>>
    /\ log_origin = <<>>
    /\ import_file = "absent"
    /\ log_file = "absent"

\* A run without --no-download whose download_feed has returned.
Downloaded ==
    /\ no_download = FALSE
    /\ fetches = 1

\* sync_stock.py is not run.
LegacyOff ==
    /\ legacy_pc = "off"
    /\ legacy_changes = <<>>
    /\ legacy_origin = <<>>

\* A downloaded feed and an export file, before main touches them.
Init ==
    /\ feed \in SeqsUpTo(SyncProducts, MaxSyncProducts)
    /\ rows \in SeqsUpTo(SyncRows, MaxSyncRows)
    /\ pc = "feed_downloaded"
    /\ Idle
    /\ Downloaded
    /\ LegacyOff

\* Feeds alone: at most MaxProducts products holding MaxItems items in all.
InitFeed ==
    /\ \E its \in SeqsUpTo(FeedItems, MaxItems) :
       \E n \in 0..MaxProducts :
       \E mpns \in [1..n -> FeedMpns] :
       \E owner \in {o \in [1..Len(its) -> 1..n] : NonDecreasing(o)} :
            feed = Deal(mpns, its, owner)
    /\ rows = <<>>
    /\ pc = "feed_downloaded"
    /\ Idle
    /\ Downloaded
    /\ LegacyOff

\* Export files alone, read after an empty feed.
InitWoo ==
    /\ feed = <<>>
    /\ rows \in SeqsUpTo(ExportRows, MaxRows)
    /\ pc = "feed_parsed"
    /\ Idle
    /\ Downloaded
    /\ LegacyOff

\* main from its first statement: the command line is parsed, the feed is
\* what the supplier's URL serves and rows what the export file holds.
InitMain ==
    /\ feed \in SeqsUpTo(SyncProducts, MaxSyncProducts)
    /\ rows \in SeqsUpTo(SyncRows, MaxMainRows)
    /\ pc = "args_parsed"
    /\ Idle
    /\ no_download \in BOOLEAN
    /\ fetches = 0
    /\ LegacyOff

\* if not Path(woo_export_path).exists(): sys.exit(1)
main_check_input ==
    /\ pc = "args_parsed"
    /\ \E exists \in BOOLEAN :
          pc' = IF exists THEN "input_checked" ELSE "failed"
    /\ UNCHANGED <<feed, rows, b2b_products, woo_products, all_skus,
                   sync_vars, run_vars, legacy_vars>>

\* xml_content = download_feed(url), called whatever args.no_download is:
\* no URL configured, a failed request, or the content.
download_feed ==
    /\ pc = "input_checked"
    /\ \E outcome \in {"no_url", "request_failed", "content"} :
          /\ fetches' = IF outcome = "no_url" THEN fetches ELSE fetches + 1
          /\ pc' = IF outcome = "content" THEN "feed_downloaded" ELSE "failed"
    /\ UNCHANGED <<feed, rows, b2b_products, woo_products, all_skus,
                   sync_vars, no_download, import_file, log_file, legacy_vars>>

\* b2b_products = get_b2b_products(), after its download_feed
main_get_b2b_products ==
    /\ pc = "feed_downloaded"
    /\ LET r == parse_b2b_feed(feed)
       IN IF r.raised
          THEN /\ pc' = "failed"
               /\ UNCHANGED b2b_products
          ELSE /\ pc' = "feed_parsed"
               /\ b2b_products' = r.products
    /\ UNCHANGED <<feed, rows, woo_products, all_skus,
                   sync_vars, run_vars, legacy_vars>>

\* woo_products = load_woo_export(woo_export_path)
main_load_woo_export ==
    /\ pc = "feed_parsed"
    /\ LET r == load_woo_export(rows)
       IN IF r.raised
          THEN /\ pc' = "failed"
               /\ UNCHANGED <<woo_products, all_skus>>
          ELSE /\ pc' = "export_loaded"
               /\ woo_products' = r.woo_products
               /\ all_skus' \in ListsOf(r.all_skus)
    /\ UNCHANGED <<feed, rows, b2b_products,
                   sync_vars, run_vars, legacy_vars>>

\* sync_stock: changes, log_data = detect_changes(b2b_products, woo_products)
main_sync_stock ==
    /\ pc = "export_loaded"
    /\ LET r == detect_changes(b2b_products, woo_products, all_skus)
       IN /\ changes' = r.changes
          /\ change_log' = r.change_log
          /\ processed_skus' = r.processed
          /\ origin' = r.origin
          /\ log_origin' = r.log_origin
    /\ pc' = "changes_detected"
    /\ UNCHANGED <<feed, rows, b2b_products, woo_products, all_skus,
                   run_vars, legacy_vars>>

\* How open(..., 'w') and the writes under it can end.
WriteOutcomes == {"open_failed", "write_failed", "written"}

\* The file a write leaves behind: none when open fails, an incomplete one
\* when a write under it fails.
FileAfter(outcome) ==
    IF outcome = "open_failed" THEN "absent"
    ELSE IF outcome = "write_failed" THEN "partial"
    ELSE "complete"

\* sync_stock: import_file = create_import_file(changes, log_data), then the
\* summary and the return of main.  save_csv_file and save_log_file call
\* sys.exit(1) when their file cannot be written.
create_import_file ==
    /\ pc = "changes_detected"
    /\ IF changes = <<>>
       THEN /\ pc' = "exited"
            /\ UNCHANGED <<import_file, log_file>>
       ELSE \E csv \in WriteOutcomes :
              /\ import_file' = FileAfter(csv)
              /\ IF csv # "written"
                 THEN /\ pc' = "failed"
                      /\ UNCHANGED log_file
                 ELSE IF change_log = <<>>
                 THEN /\ pc' = "exited"
                      /\ UNCHANGED log_file
                 ELSE \E log \in WriteOutcomes :
                        /\ log_file' = FileAfter(log)
                        /\ pc' = IF log = "written" THEN "exited" ELSE "failed"
    /\ UNCHANGED <<feed, rows, b2b_products, woo_products, all_skus,
                   sync_vars, no_download, fetches, legacy_vars>>

\* The exit status of a run that has ended: sys.exit(1), or the return of main.
ExitStatus == IF pc = "failed" THEN 1 ELSE 0

Next == main_get_b2b_products \/ main_load_woo_export \/ main_sync_stock

Spec == Init /\ [][Next]_vars

NextFeed == main_get_b2b_products

SpecFeed == InitFeed /\ [][NextFeed]_vars

NextWoo == main_load_woo_export

SpecWoo == InitWoo /\ [][NextWoo]_vars

\* The same feed and export file given to main.py, after its download, and
\* to sync_stock.py.
InitBoth ==
    /\ feed \in SeqsUpTo(SyncProducts, MaxSyncProducts)
    /\ rows \in SeqsUpTo(SyncRows, MaxBothRows)
    /\ pc = "feed_downloaded"
    /\ Idle
    /\ Downloaded
    /\ legacy_pc = "start"
    /\ legacy_changes = <<>>
    /\ legacy_origin = <<>>

\* main of sync_stock.py, from the parse of the downloaded feed to the
\* return of detect_changes; every failure is a sys.exit(1).
sync_stock_main ==
    /\ legacy_pc = "start"
    /\ LET b == legacy_parse_b2b_feed(feed)
           w == legacy_load_woo_export(rows)
           r == legacy_detect_changes(b.products, w.woo_products)
       IN IF b.raised \/ w.raised
          THEN /\ legacy_pc' = "failed"
               /\ UNCHANGED <<legacy_changes, legacy_origin>>
          ELSE /\ legacy_pc' = "done"
               /\ legacy_changes' = r.changes
               /\ legacy_origin' = r.origin
    /\ UNCHANGED <<feed, rows, pc, b2b_products, woo_products, all_skus,
                   sync_vars, run_vars>>

NextBoth == Next \/ sync_stock_main

SpecBoth == InitBoth /\ [][NextBoth]_vars

NextMain ==
    \/ main_check_input
    \/ download_feed
    \/ main_get_b2b_products
    \/ main_load_woo_export
    \/ main_sync_stock
    \/ create_import_file

SpecMain == InitMain /\ [][NextMain]_vars

-----------------------------------------------------------------------------
(* Properties of the reconciliation (detect_changes after load_woo_export). *)

Universe == {all_skus[i] : i \in DOMAIN all_skus}

\* Keys present in both mappings.
BothKeys == Keys(woo_products) \cap Keys(b2b_products)

\* The export and the supplier disagree on the quantity or the availability.
Changed(k) ==
    \/ Lookup(woo_products, k).current_stock # Lookup(b2b_products, k).stock
    \/ Lookup(woo_products, k).current_status # Lookup(b2b_products, k).stock_status

ChangeRecordsOf(k) ==
    {i \in DOMAIN changes : origin[i] = [pass |-> "change", key |-> k]}

RetentionRecords == {i \in DOMAIN changes : origin[i].pass = "retention"}

\* C1: universe coverage: the skus of the returned change list are exactly
\* the identifier universe, each carried by exactly one record, and no
\* record carries an identifier outside it.
C1_UniverseCoverage ==
    pc = "changes_detected" =>
        /\ \A s \in Universe :
              Cardinality({i \in DOMAIN changes : changes[i].sku = s}) = 1
        /\ \A i \in DOMAIN changes : changes[i].sku \in Universe

\* C2: change correctness: every key of both mappings whose quantity or
\* availability differs gets exactly one change-pass record, which carries
\* the supplier's quantity and availability, and its identifier is marked
\* covered.
C2_ChangeCorrectness ==
    pc = "changes_detected" =>
        \A k \in BothKeys :
            Changed(k) =>
                /\ Cardinality(ChangeRecordsOf(k)) = 1
                /\ \A i \in ChangeRecordsOf(k) :
                      /\ changes[i].stock = Lookup(b2b_products, k).stock
                      /\ changes[i].stock_status = Lookup(b2b_products, k).stock_status
                      /\ changes[i].sku = Lookup(woo_products, k).sku
                      /\ changes[i].sku # <<>> => changes[i].sku \in processed_skus

C2_Witness ==
    /\ pc = "changes_detected"
    /\ \E k \in BothKeys :
          /\ Lookup(woo_products, k).current_stock = Lookup(b2b_products, k).stock
          /\ Lookup(woo_products, k).current_status # Lookup(b2b_products, k).stock_status
          /\ ChangeRecordsOf(k) # {}
    /\ \E k \in BothKeys :
          /\ Lookup(woo_products, k).current_stock # Lookup(b2b_products, k).stock
          /\ Lookup(woo_products, k).sku # <<>>
          /\ ChangeRecordsOf(k) # {}

\* The identifier of an inventory record (sku of a parent, ean of a
\* variation) and of a change record (its sku or, without one, its ean).
KeyIdentifier(k) ==
    IF Lookup(woo_products, k).type = "parent"
    THEN Lookup(woo_products, k).sku ELSE Lookup(woo_products, k).ean

RecordIdentifier(c) == IF c.sku # <<>> THEN c.sku ELSE c.ean

\* C3 as stated: a key of both mappings with identical quantity and status
\* gets no change-pass record and no audit entry, and a record carrying its
\* identifier can only be a retention record.
C3_NoOpStabilityAsStated ==
    pc = "changes_detected" =>
        \A k \in BothKeys :
            ~Changed(k) =>
                /\ ChangeRecordsOf(k) = {}
                /\ \A i \in DOMAIN change_log : log_origin[i] # k
                /\ \A i \in DOMAIN changes :
                      RecordIdentifier(changes[i]) = KeyIdentifier(k)
                      => origin[i].pass = "retention"

\* C3 amended: a key of both mappings with identical quantity and status
\* appends no record and no audit entry; its sku is covered, so no retention
\* record carries it, and a record that carries it is the change-pass record
\* of another key whose row has the same sku.
C3_NoOpStability ==
    pc = "changes_detected" =>
        \A k \in BothKeys :
            ~Changed(k) =>
                /\ \A i \in DOMAIN changes : origin[i].key # k
                /\ \A i \in DOMAIN change_log : log_origin[i] # k
                /\ Lookup(woo_products, k).sku # <<>> =>
                      /\ Lookup(woo_products, k).sku \in processed_skus
                      /\ \A i \in DOMAIN changes :
                            changes[i].sku = Lookup(woo_products, k).sku =>
                                /\ origin[i].pass = "change"
                                /\ origin[i].key \in BothKeys
                                /\ Changed(origin[i].key)

C3_Witness ==
    /\ pc = "changes_detected"
    /\ \E k \in BothKeys :
          /\ ~Changed(k)
          /\ Lookup(woo_products, k).sku # <<>>
          /\ \E i \in DOMAIN changes : changes[i].sku = Lookup(woo_products, k).sku

\* The export's own quantity and availability of a sku: those of a row
\* that carries it.
ExportValuesOf(s) ==
    {<<CurrentStock(rows[j]).val, CurrentStatus(rows[j])>> :
        j \in {j \in DOMAIN rows : rows[j].sku # Absent /\ Strip(rows[j].sku) = s}}

\* C4: retention: every identifier of the universe that the change pass left
\* uncovered gets one retention record holding the export's own quantity and
\* availability, also when its row is not addressable under the key scheme.
C4_Retention ==
    pc = "changes_detected" =>
        \A s \in Universe \ processed_skus :
            /\ Cardinality({i \in RetentionRecords : changes[i].sku = s}) = 1
            /\ \A i \in RetentionRecords :
                  changes[i].sku = s =>
                      <<changes[i].stock, changes[i].stock_status>> \in ExportValuesOf(s)

\* C5: output order: every change-pass record (supplier values of a key of
\* both mappings) precedes every retention record (the export's values of an
\* uncovered identifier).
C5_OutputOrder ==
    pc = "changes_detected" =>
        /\ Len(origin) = Len(changes)
        /\ \A i \in DOMAIN changes :
              LET k == origin[i].key
              IN IF origin[i].pass = "change"
                 THEN /\ k \in BothKeys
                      /\ changes[i].stock = Lookup(b2b_products, k).stock
                      /\ changes[i].stock_status = Lookup(b2b_products, k).stock_status
                 ELSE /\ changes[i].sku \in Universe \ processed_skus
                      /\ changes[i].stock = Lookup(woo_products, k).current_stock
                      /\ changes[i].stock_status = Lookup(woo_products, k).current_status
        /\ \A i, j \in DOMAIN changes :
              (origin[i].pass = "retention" /\ origin[j].pass = "change") => j < i

C5_Witness ==
    /\ pc = "changes_detected"
    /\ \E i, j \in DOMAIN changes :
          /\ origin[i].pass = "change"
          /\ origin[j].pass = "retention"
          /\ changes[i].stock # changes[j].stock

-----------------------------------------------------------------------------
(* Properties of the two normalizers.                                      *)

\* The products parse_b2b_feed does not skip, and their line items.
ParsedProducts == {p \in DOMAIN feed : Truthy(feed[p].mpn)}

ParsedItems == UNION {{<<p, j>> : j \in DOMAIN feed[p].stock} : p \in ParsedProducts}

ItemAt(pj) == feed[pj[1]].stock[pj[2]]

Later(pj, qk) == pj[1] < qk[1] \/ (pj[1] = qk[1] /\ pj[2] < qk[2])

RECURSIVE SumOfQuantities(_)
SumOfQuantities(items) ==
    IF items = <<>> THEN 0
    ELSE ItemQuantity(Head(items)).val + SumOfQuantities(Tail(items))

AvailabilityDerived ==
    \A i \in DOMAIN b2b_products :
        b2b_products[i].val.stock_status =
            IF b2b_products[i].val.stock > 0 THEN "instock" ELSE "outofstock"

\* C6 as stated: every product with a non-blank identifier has a parent
\* entry holding the sum of its line items, every line item with a non-blank
\* EAN has a variant entry holding that line's quantity, and availability is
\* in stock iff the quantity is positive.
C6_AggregationAsStated ==
    pc = "feed_parsed" =>
        /\ \A p \in DOMAIN feed :
              NonBlank(feed[p].mpn) =>
                  /\ HasKey(b2b_products, SkuKey(Strip(feed[p].mpn)))
                  /\ Lookup(b2b_products, SkuKey(Strip(feed[p].mpn))).stock
                        = SumOfQuantities(feed[p].stock)
                  /\ \A j \in DOMAIN feed[p].stock :
                        NonBlank(feed[p].stock[j].ean) =>
                            /\ HasKey(b2b_products, EanKey(Strip(feed[p].stock[j].ean)))
                            /\ Lookup(b2b_products, EanKey(Strip(feed[p].stock[j].ean))).stock
                                  = ItemQuantity(feed[p].stock[j]).val
        /\ AvailabilityDerived

\* C6 amended: the parent entry of an identifier holds the sum of the line
\* items of the last product with that identifier, the variant entry of an
\* EAN holds the quantity of the last line item with that EAN, and every
\* entry's availability is in stock iff its quantity is positive.
C6_Aggregation ==
    pc = "feed_parsed" =>
        /\ \A p \in DOMAIN feed :
              NonBlank(feed[p].mpn) =>
                  /\ HasKey(b2b_products, SkuKey(Strip(feed[p].mpn)))
                  /\ Lookup(b2b_products, SkuKey(Strip(feed[p].mpn))).type = "parent"
                  /\ (\A q \in ParsedProducts :
                         Strip(feed[q].mpn) = Strip(feed[p].mpn) => q <= p)
                     => Lookup(b2b_products, SkuKey(Strip(feed[p].mpn))).stock
                           = SumOfQuantities(feed[p].stock)
        /\ \A pj \in ParsedItems :
              NonBlank(ItemAt(pj).ean) =>
                  /\ HasKey(b2b_products, EanKey(Strip(ItemAt(pj).ean)))
                  /\ Lookup(b2b_products, EanKey(Strip(ItemAt(pj).ean))).type = "variation"
                  /\ (\A qk \in ParsedItems :
                         (/\ ItemAt(qk).ean # Absent
                          /\ Strip(ItemAt(qk).ean) = Strip(ItemAt(pj).ean))
                         => ~Later(pj, qk))
                     => Lookup(b2b_products, EanKey(Strip(ItemAt(pj).ean))).stock
                           = ItemQuantity(ItemAt(pj)).val
        /\ AvailabilityDerived

C6_Witness ==
    /\ pc = "feed_parsed"
    /\ \E p \in DOMAIN feed :
          /\ NonBlank(feed[p].mpn)
          /\ Len(feed[p].stock) = 2
          /\ Lookup(b2b_products, SkuKey(Strip(feed[p].mpn))).stock = 8
          /\ Lookup(b2b_products, SkuKey(Strip(feed[p].mpn))).stock_status = "instock"
          /\ \E j \in DOMAIN feed[p].stock :
                /\ NonBlank(feed[p].stock[j].ean)
                /\ Lookup(b2b_products, EanKey(Strip(feed[p].stock[j].ean))).stock = 3
                /\ Lookup(b2b_products, EanKey(Strip(feed[p].stock[j].ean))).stock_status
                      = "instock"

\* C7: EAN normalization: a feed line item and an export variant row whose
\* EANs are the same once a trailing ".0" is stripped land on the same key,
\* ean:<EAN without the suffix>, in both mappings.
C7_EanNormalization ==
    pc = "changes_detected" =>
        \A pj \in ParsedItems :
            \A r \in DOMAIN rows :
                (/\ NonBlank(ItemAt(pj).ean)
                 /\ IsVariationRow(rows[r])
                 /\ NormalizeEan(ItemAt(pj).ean) = NormalizeEan(rows[r].ean))
                => EanKey(NormalizeEan(ItemAt(pj).ean)) \in BothKeys

\* The classification rule as specified: blank means empty once stripped.
Blank(t) == t = Absent \/ Strip(t) = <<>>

SpecifiedParent(row) ==
    ~Blank(row.sku) /\ (Blank(row.post_parent) \/ row.post_parent = <<"0">>)

SpecifiedVariant(row) ==
    ~SpecifiedParent(row) /\ ~Blank(row.ean) /\ ~Blank(row.post_parent)

\* C8: row classification: a row is keyed sku:<identifier> as a parent iff its
\* identifier is non-blank and its parent reference is absent, blank or "0";
\* otherwise keyed ean:<EAN> as a variant iff its EAN and its parent reference
\* are non-blank; otherwise it adds no entry.
C8_RowClassification ==
    pc = "export_loaded" =>
        /\ \A r \in DOMAIN rows :
              SpecifiedParent(rows[r]) =>
                  HasKey(woo_products, SkuKey(Strip(rows[r].sku)))
        /\ \A r \in DOMAIN rows :
              SpecifiedVariant(rows[r]) =>
                  HasKey(woo_products, EanKey(NormalizeEan(rows[r].ean)))
        /\ \A i \in DOMAIN woo_products :
              \E r \in DOMAIN rows :
                  \/ /\ SpecifiedParent(rows[r])
                     /\ woo_products[i].key = SkuKey(Strip(rows[r].sku))
                     /\ woo_products[i].val.type = "parent"
                  \/ /\ SpecifiedVariant(rows[r])
                     /\ woo_products[i].key = EanKey(NormalizeEan(rows[r].ean))
                     /\ woo_products[i].val.type = "variation"

\* C9: universe completeness: _all_skus holds, once each, exactly the
\* stripped non-blank identifiers of the rows, whatever their classification.
C9_UniverseCompleteness ==
    pc = "export_loaded" =>
        /\ \A i, j \in DOMAIN all_skus : all_skus[i] = all_skus[j] => i = j
        /\ Universe = {Strip(rows[r].sku) : r \in {r \in DOMAIN rows : ~Blank(rows[r].sku)}}

C9_Witness ==
    /\ pc = "export_loaded"
    /\ Len(all_skus) = 2
    /\ \E r \in DOMAIN rows :
          /\ ~Blank(rows[r].sku)
          /\ ~IsParentRow(rows[r])
          /\ ~IsVariationRow(rows[r])
          /\ \A i \in DOMAIN woo_products : woo_products[i].val.sku # Strip(rows[r].sku)

\* C10: a missing, unparsable or negative quantity never aborts the run, and
\* every quantity stored in either mapping is a non-negative integer.
C10_QuantityDefectsRecovered ==
    /\ pc # "failed"
    /\ \A i \in DOMAIN b2b_products : b2b_products[i].val.stock >= 0
    /\ \A i \in DOMAIN woo_products : woo_products[i].val.current_stock >= 0

\* A product whose line items parse_b2b_feed cannot read.
Unreadable(p) ==
    \E j \in DOMAIN feed[p].stock : ~ItemQuantity(feed[p].stock[j]).ok

\* C11: blank-identifier skip: a product whose mpn is absent, empty or
\* whitespace-only is skipped: it makes the parse raise nothing, the mapping
\* gets no parent entry for it (none with an empty identifier), and the
\* products with an identifier still get their parent entry.
C11_BlankIdentifierSkip ==
    /\ pc = "failed" =>
          \E p \in DOMAIN feed : ~Blank(feed[p].mpn) /\ Unreadable(p)
    /\ pc = "feed_parsed" =>
          /\ ~HasKey(b2b_products, SkuKey(<<>>))
          /\ \A i \in DOMAIN b2b_products :
                b2b_products[i].val.type = "parent" =>
                    \E p \in DOMAIN feed :
                        /\ ~Blank(feed[p].mpn)
                        /\ b2b_products[i].key = SkuKey(Strip(feed[p].mpn))
          /\ \A p \in DOMAIN feed :
                ~Blank(feed[p].mpn) => HasKey(b2b_products, SkuKey(Strip(feed[p].mpn)))

-----------------------------------------------------------------------------
(* Properties of a whole run of main.py.                                   *)

\* main has returned or called sys.exit.
Ended == pc \in {"exited", "failed"}

\* C12: all-or-nothing run: a run that ends with exit status 0 has written
\* one complete import file when the change list is non-empty and none when
\* it is empty; a run that ends with a non-zero exit status, whatever step
\* failed (writing the audit log included), has left no import file.
C12_AllOrNothing ==
    Ended =>
        IF ExitStatus = 0
        THEN import_file = IF changes # <<>> THEN "complete" ELSE "absent"
        ELSE import_file = "absent"

\* C13: skip-download mode: a run started with --no-download makes no HTTP
\* fetch of the feed.
C13_SkipDownload ==
    no_download => fetches = 0

-----------------------------------------------------------------------------
(* Properties of the audit log and of the covered markers.                 *)

ChangePassRecords == {i \in DOMAIN changes : origin[i].pass = "change"}

\* C14: parallel audit log: change_log has one entry per change-pass record,
\* in the same order; entry i holds the export's quantity and availability
\* of the key of change-pass record i as old values and the supplier's as new
\* values, under the record's SKU or, without one, its EAN; retention records
\* have no entry.
C14_ParallelAuditLog ==
    pc = "changes_detected" =>
        /\ Len(change_log) = Cardinality(ChangePassRecords)
        /\ \A i \in DOMAIN change_log :
              /\ i \in ChangePassRecords
              /\ log_origin[i] = origin[i].key
              /\ change_log[i].key = RecordIdentifier(changes[i])
              /\ change_log[i].old_stock = Lookup(woo_products, origin[i].key).current_stock
              /\ change_log[i].old_status = Lookup(woo_products, origin[i].key).current_status
              /\ change_log[i].new_stock = Lookup(b2b_products, origin[i].key).stock
              /\ change_log[i].new_status = Lookup(b2b_products, origin[i].key).stock_status
              /\ change_log[i].new_stock = changes[i].stock
              /\ change_log[i].new_status = changes[i].stock_status
        /\ \A i \in RetentionRecords : i \notin DOMAIN change_log

C14_Witness ==
    /\ pc = "changes_detected"
    /\ \E i \in DOMAIN change_log :
          changes[i].sku = <<>> /\ change_log[i].key = changes[i].ean
    /\ \E i \in DOMAIN change_log :
          changes[i].sku # <<>> /\ change_log[i].key = changes[i].sku
    /\ RetentionRecords # {}

\* The identifier a record carries, in the key space: its SKU or, without
\* one, its EAN.
RecordKey(c) == IF c.sku # <<>> THEN SkuKey(c.sku) ELSE EanKey(c.ean)

\* The identifiers the change pass covers: the SKUs of the export records
\* whose key is in both mappings.
CoveredByChangePass ==
    {Lookup(woo_products, k).sku : k \in BothKeys} \ {<<>>}

\* C15: no change-plus-retention duplicate: no identifier is carried by a
\* change-pass record and by a retention record; a retention record is
\* emitted only for an identifier of the universe whose covered marker is
\* still false after the whole change pass, and at most once for it.
C15_NoChangePlusRetention ==
    pc = "changes_detected" =>
        /\ processed_skus = CoveredByChangePass
        /\ \A i \in ChangePassRecords :
              \A j \in RetentionRecords :
                  RecordKey(changes[i]) # RecordKey(changes[j])
        /\ \A j \in RetentionRecords :
              changes[j].sku \in Universe \ processed_skus
        /\ \A i, j \in RetentionRecords :
              changes[i].sku = changes[j].sku => i = j

C15_Witness ==
    /\ pc = "changes_detected"
    /\ \E i \in ChangePassRecords : changes[i].sku # <<>>
    /\ \E i \in ChangePassRecords :
          \E j \in RetentionRecords :
              changes[i].sku = <<>> /\ changes[i].ean = changes[j].sku

-----------------------------------------------------------------------------
(* main.py against sync_stock.py.                                          *)

\* Both scripts have their change list.
BothDone == pc = "changes_detected" /\ legacy_pc = "done"

\* A record of sync_stock.py without its ID and its backorders.
Projected(c) ==
    [sku |-> c.sku, ean |-> c.ean, manage_stock |-> c.manage_stock,
     stock_status |-> c.stock_status, stock |-> c.stock]

\* C16 as stated: the change-pass records of the modular detect_changes are
\* the records of the legacy detect_changes, in the same order and from the
\* same keys, and differ from them only by the projected fields (no ID, no
\* backorders).
C16_ChangePassEquivalenceAsStated ==
    BothDone =>
        /\ ChangePassRecords = DOMAIN legacy_changes
        /\ \A i \in DOMAIN legacy_changes :
              /\ origin[i].key = legacy_origin[i]
              /\ changes[i] = Projected(legacy_changes[i])

\* C16 amended: the change-pass records of the modular detect_changes are
\* those of the legacy one in the same order, from the same keys and with the
\* same ean, manage_stock, stock and stock_status; the sku is the same on a
\* parent's record, and on a variation's record the modular one holds the
\* row's SKU where the legacy one holds ''.
C16_ChangePassEquivalence ==
    BothDone =>
        /\ ChangePassRecords = DOMAIN legacy_changes
        /\ \A i \in DOMAIN legacy_changes :
              /\ origin[i].key = legacy_origin[i]
              /\ changes[i].ean = legacy_changes[i].ean
              /\ changes[i].manage_stock = legacy_changes[i].manage_stock
              /\ changes[i].stock = legacy_changes[i].stock
              /\ changes[i].stock_status = legacy_changes[i].stock_status
              /\ changes[i].sku = Lookup(woo_products, origin[i].key).sku
              /\ legacy_changes[i].sku =
                    IF Lookup(woo_products, origin[i].key).type = "parent"
                    THEN changes[i].sku ELSE <<>>

C16_Witness ==
    /\ BothDone
    /\ \E i \in DOMAIN legacy_changes : changes[i].sku # legacy_changes[i].sku
    /\ \E i \in DOMAIN legacy_changes :
          changes[i].sku = legacy_changes[i].sku /\ changes[i].sku # <<>>

====
